---- MODULE Spec2Model ----
(***************************************************************************)
(* News keyword-alert poller of app.py: RSS / NewsAPI / Bing News sources, *)
(* keyword + watchlist matching, de-duplication through SEEN_IDS, the      *)
(* bounded ALERTS deque, the interval scheduler and the HTTP handlers.     *)
(*                                                                         *)
(* Text is modelled as a sequence of one-character strings so that         *)
(* stable_id_from and the regex searches are computed, not assumed.        *)
(***************************************************************************)
EXTENDS Integers, Sequences, FiniteSets, TLC

(***************************************************************************)
(* Bounds and program constants                                            *)
(***************************************************************************)

\* ALERTS_CAPACITY comes from the environment (default 500); the model
\* runs with a small capacity so that overflow happens.
ALERTS_CAPACITY == 2

\* POLL_INTERVAL_MINUTES (default of the environment variable).
POLL_INTERVAL_MINUTES == 10

\* The model serves at most MaxRequests requests besides POST /poll.
MaxRequests == 2

\* The slice [:256] of stable_id_from.
KEY_MAX == 256

(***************************************************************************)
(* Characters and text                                                     *)
(***************************************************************************)

Range(s) == {s[i] : i \in 1..Len(s)}

Min(a, b) == IF a <= b THEN a ELSE b

UPPER == << "A", "B", "C", "D", "E", "F", "G", "H", "I", "J", "K", "L", "M",
            "N", "O", "P", "Q", "R", "S", "T", "U", "V", "W", "X", "Y", "Z" >>

LOWER == << "a", "b", "c", "d", "e", "f", "g", "h", "i", "j", "k", "l", "m",
            "n", "o", "p", "q", "r", "s", "t", "u", "v", "w", "x", "y", "z" >>

DIGITS == {"0", "1", "2", "3", "4", "5", "6", "7", "8", "9"}

UpperCase == Range(UPPER)

ToLower == [c \in UpperCase |-> LOWER[CHOOSE i \in 1..26 : UPPER[i] = c]]

\* str.lower() on one character.
LowerChar(c) == IF c \in UpperCase THEN ToLower[c] ELSE c

\* str.lower()
Lower(s) == [i \in 1..Len(s) |-> LowerChar(s[i])]

\* \s of the re module
IsSpace(c) == c \in {" ", "\n", "\t", "\r"}

WordChars == Range(UPPER) \cup Range(LOWER) \cup DIGITS \cup {"_"}

\* \w of the re module
IsWord(c) == c \in WordChars

\* str.strip(): leading and trailing whitespace removed.
RECURSIVE LStrip(_)
LStrip(s) ==
    IF s = << >> THEN << >>
    ELSE IF IsSpace(Head(s)) THEN LStrip(Tail(s)) ELSE s

RECURSIVE RStrip(_)
RStrip(s) ==
    IF s = << >> THEN << >>
    ELSE IF IsSpace(s[Len(s)]) THEN RStrip(SubSeq(s, 1, Len(s) - 1)) ELSE s

Strip(s) == RStrip(LStrip(s))

\* re.sub(r"\s+", "", s): every run of whitespace removed.
RECURSIVE RemoveSpace(_)
RemoveSpace(s) ==
    IF s = << >> THEN << >>
    ELSE IF IsSpace(Head(s)) THEN RemoveSpace(Tail(s))
    ELSE << Head(s) >> \o RemoveSpace(Tail(s))

\* s[:n]
Prefix(s, n) == SubSeq(s, 1, Min(Len(s), n))

(***************************************************************************)
(* De-duplication key                                                      *)
(***************************************************************************)

stable_id_from(title, link) ==
    LET base == title \o link
    IN  Prefix(RemoveSpace(Lower(Strip(base))), KEY_MAX)

(***************************************************************************)
(* Regular expressions                                                     *)
(*                                                                         *)
(* A regex source is a sequence of tokens: the assertion "\\b", the        *)
(* repetition "\\s*", the group delimiters "(" and ")", an escaped         *)
(* delimiter ("\\(", "\\)") and literal characters.  The patterns of this  *)
(* program are literals between two \b; a pattern with a group delimiter   *)
(* stands for a source that re.compile rejects, such as "(".               *)
(***************************************************************************)

BOUNDARY == "\\b"

SPACES == "\\s*"

\* re.escape
EscapeChar(c) == IF c = "(" THEN "\\(" ELSE IF c = ")" THEN "\\)" ELSE c

Escape(s) == [i \in 1..Len(s) |-> EscapeChar(s[i])]

\* The character an escaped or literal token stands for.
Literal(t) == IF t = "\\(" THEN "(" ELSE IF t = "\\)" THEN ")" ELSE t

\* re.compile raises re.error on an unbalanced group delimiter.
Compiles(pat) == \A i \in 1..Len(pat) : pat[i] \notin {"(", ")"}

\* \b at position pos: between text[pos - 1] and text[pos].
AtBoundary(text, pos) ==
    LET left  == pos > 1 /\ IsWord(text[pos - 1])
        right == pos <= Len(text) /\ IsWord(text[pos])
    IN  left # right

\* The pattern matches the text from position pos on (re.IGNORECASE).
RECURSIVE MatchAt(_, _, _)
MatchAt(pat, text, pos) ==
    IF pat = << >> THEN TRUE
    ELSE IF Head(pat) = BOUNDARY
    THEN AtBoundary(text, pos) /\ MatchAt(Tail(pat), text, pos)
    ELSE IF Head(pat) = SPACES
    THEN \E k \in 0..(Len(text) + 1 - pos) :
            /\ \A j \in pos..(pos + k - 1) : IsSpace(text[j])
            /\ MatchAt(Tail(pat), text, pos + k)
    ELSE /\ pos <= Len(text)
         /\ LowerChar(text[pos]) = LowerChar(Literal(Head(pat)))
         /\ MatchAt(Tail(pat), text, pos + 1)

\* re.search(pattern, text, flags=re.IGNORECASE) of a pattern that compiles
Search(pat, text) == \E pos \in 1..(Len(text) + 1) : MatchAt(pat, text, pos)

\* rf"\b{word}\b"
Word(w) == << BOUNDARY >> \o w \o << BOUNDARY >>

(***************************************************************************)
(* Watchlist                                                               *)
(***************************************************************************)

\* "Tata Consultancy Services"
TATA_CONSULTANCY_SERVICES ==
    << "T", "a", "t", "a", " ", "C", "o", "n", "s", "u", "l", "t", "a",
       "n", "c", "y", " ", "S", "e", "r", "v", "i", "c", "e", "s" >>

\* "State Bank of India"
STATE_BANK_OF_INDIA ==
    << "S", "t", "a", "t", "e", " ", "B", "a", "n", "k", " ", "o", "f",
       " ", "I", "n", "d", "i", "a" >>

\* "Hindustan Unilever"
HINDUSTAN_UNILEVER ==
    << "H", "i", "n", "d", "u", "s", "t", "a", "n", " ", "U", "n", "i",
       "l", "e", "v", "e", "r" >>

\* "Larsen & Toubro"
LARSEN_AND_TOUBRO ==
    << "L", "a", "r", "s", "e", "n", " ", "&", " ", "T", "o", "u", "b",
       "r", "o" >>

\* "ITC"
ITC ==
    << "I", "T", "C" >>

\* The aliases _compile_watchlist_patterns adds after a name.
Aliases(n) ==
    IF n = TATA_CONSULTANCY_SERVICES THEN << Word(<< "T", "C", "S" >>) >>
    ELSE IF n = STATE_BANK_OF_INDIA THEN << Word(<< "S", "B", "I" >>) >>
    ELSE IF n = HINDUSTAN_UNILEVER THEN << Word(<< "H", "U", "L" >>) >>
    ELSE IF n = LARSEN_AND_TOUBRO
    THEN << << BOUNDARY, "L", SPACES, "&", SPACES, "T", BOUNDARY >>,
            Word(<< "L", "&", "T" >>) >>
    ELSE << >>

RECURSIVE _compile_watchlist_patterns(_)
_compile_watchlist_patterns(names) ==
    IF names = << >> THEN << >>
    ELSE << Word(Escape(Head(names))) >> \o Aliases(Head(names))
         \o _compile_watchlist_patterns(Tail(names))

(***************************************************************************)
(* State                                                                   *)
(***************************************************************************)

VARIABLES
    RSS_FEEDS,           \* list of feed urls
    KEYWORDS,            \* list of regex sources
    WATCHLIST,           \* list of names
    WATCHLIST_PATTERNS,  \* list of compiled patterns
    SEEN_IDS,            \* set of de-dup keys
    ALERTS,              \* deque(maxlen=ALERTS_CAPACITY), newest first
    scheduler,           \* service.scheduler: its jobs and whether it runs
    is_started,          \* service.is_started
    poll,                \* per thread: where its poll_once stands
    caught,              \* per thread: a source has failed in its running poll_once
    stored,              \* history: every alert store_alert was called with
    clearedAt,           \* history: Len(stored) at the last clear_alerts
    watch,               \* per worker: where its watchlist request stands
    act,                 \* history: the request or step taken last
    requests             \* history: how many requests were served

vars == << RSS_FEEDS, KEYWORDS, WATCHLIST, WATCHLIST_PATTERNS, SEEN_IDS, ALERTS,
           scheduler, is_started, poll, caught, stored, clearedAt, watch,
           act, requests >>

lists == << RSS_FEEDS, KEYWORDS, WATCHLIST, WATCHLIST_PATTERNS >>

alerts == << SEEN_IDS, ALERTS, stored, clearedAt >>

service == << scheduler, is_started >>

polls == << poll, caught >>

served == << requests, watch >>

(***************************************************************************)
(* The world outside: feeds, articles, request inputs                      *)
(***************************************************************************)

\* NEWSAPI_KEY and BING_NEWS_KEY are set in the environment.
NEWSAPI_KEY == TRUE

BING_NEWS_KEY == TRUE

\* The scheduler's job thread and a request thread running POST /poll.
Threads == {"job", "request"}

\* The threads of the web framework that serve overlapping watchlist
\* requests.
Workers == {"w1", "w2"}

GOLD == Word(<< "g", "o", "l", "d" >>)

\* A regex source that does not compile: "(".
BAD_REGEX == << "(" >>

Entry(title, summary, link, source) ==
    [title |-> title, summary |-> summary, link |-> link, source |-> source,
     malformed |-> FALSE]

\* An item whose fields are not of the expected types (a "source" that is
\* a string, a "provider" without a name).
Malformed == [Entry(<< >>, << >>, << >>, "") EXCEPT !.malformed = TRUE]

\* The entries feedparser.parse(url) can return (the source is the feed's
\* title).
FeedResults(url) ==
    IF url = "u1"
    THEN {<< Entry(<< "G", "o", "l", "d", " ", "a" >>, << >>, << "b" >>, "S1"),
             Entry(<< "S", "B", "I" >>, << >>, << "d" >>, "S1") >>}
    ELSE {<< Entry(<< "g", "o", "l", "d" >>, << >>, << "a", "b" >>, "S2") >>}

\* The feeds whose fetch can raise.
Failing == {"u1"}

\* What r.json().get("articles", []) can be.
NewsApiResults ==
    {<< Entry(<< "G", "o", "l", "d" >>, << "x" >>, << "n" >>, "N") >>,
     << Malformed >>}

\* What r.json().get("value", []) can be.
BingResults ==
    {<< Entry(<< "G", "o", "l", "d", " ", "a" >>, << >>, << "b" >>, "B") >>,
     << Malformed >>}

FeedUrls == {"u1", "u2"}

FeedLists == {<< >>, << "u2", "u2" >>}

Patterns == {GOLD, BAD_REGEX}

KeywordLists == {<< >>, << BAD_REGEX, GOLD, BAD_REGEX >>}

Names == {ITC, STATE_BANK_OF_INDIA}

NameLists == {<< >>, << ITC, ITC >>}

\* limit: int = Query(50, ge=1, le=ALERTS_CAPACITY)
Limits == 1..ALERTS_CAPACITY

\* source: Optional[str]; "" stands for None and for the empty string,
\* which `if source` treats alike.
SourceFilters == {"", "S1", "N"}

\* contains: Optional[str]; << >> stands for None and the empty string.
ContainsFilters == {<< >>, << "G", "O", "L", "D" >>, << "d", "x" >>}

\* minutes: Optional[int]; << >> is None.
Minutes == {<< >>, << 0 >>, << 5 >>}

(***************************************************************************)
(* Matching and storing                                                    *)
(***************************************************************************)

\* The keyword loop of matches_text: re.search compiles each source in
\* turn, so a source that does not compile raises when the loop reaches it.
RECURSIVE SearchKeywords(_, _)
SearchKeywords(keywords, text) ==
    IF keywords = << >> THEN "nomatch"
    ELSE IF ~Compiles(Head(keywords)) THEN "error"
    ELSE IF Search(Head(keywords), text) THEN "match"
    ELSE SearchKeywords(Tail(keywords), text)

\* "match", "nomatch", or "error" when re.search raises re.error.
matches_text(text, keywords, patterns) ==
    IF text = << >> THEN "nomatch"
    ELSE LET k == SearchKeywords(keywords, text)
         IN  IF k # "nomatch" THEN k
             ELSE IF \E i \in 1..Len(patterns) : Search(patterns[i], text)
             THEN "match"
             ELSE "nomatch"

\* f"{title}\n{summary}"
TextOf(e) == e.title \o << "\n" >> \o e.summary

KeyOf(e) == stable_id_from(e.title, e.link)

\* The dict store_alert builds ("published" and "matched_at", a feed string
\* and the wall clock, are left out).
Alert(e) ==
    [title |-> e.title, summary |-> e.summary, link |-> e.link,
     source |-> e.source]

\* Mutant: a list that is never trimmed.
AppendLeftUnbounded(d, a) == << a >> \o d

\* Mutant: deque.append, which puts the new item last and drops the first.
AppendRight(d, a) ==
    LET all == d \o << a >>
    IN  SubSeq(all, Len(all) - Min(Len(all), ALERTS_CAPACITY) + 1, Len(all))

\* deque.appendleft on a deque with maxlen: a full deque drops its last item.
AppendLeft(d, a) == Prefix(<< a >> \o d, ALERTS_CAPACITY)

(***************************************************************************)
(* Initial state                                                           *)
(***************************************************************************)

\* How often x occurs in s.
Count(s, x) == Cardinality({i \in 1..Len(s) : s[i] = x})

\* The urls that are in the list, once.
Once(l) == {u \in Range(l) : Count(l, u) = 1}

\* A thread outside poll_once.  Besides the position of the thread (pc),
\* its iterator over the feed list (it, shared, idx) and the entries still
\* to look at (q, src), the record keeps the history of the poll: the urls
\* process_rss_feed was called with (fetched), the urls that have been in
\* the feed list once since the poll began (stable), and those of them the
\* finished loop has not fetched exactly once (owed).
Idle == [pc |-> "idle", it |-> << >>, shared |-> FALSE, idx |-> 0,
         q |-> << >>, src |-> "", fetched |-> << >>, stable |-> {},
         owed |-> {}]

\* A worker that serves no watchlist request.
Free == [pc |-> "idle", op |-> "", arg |-> << >>, compiled |-> << >>]

\* The lists start as the model's part of the lists of app.py: two feeds,
\* one keyword, two names of the watchlist.
Init ==
    /\ RSS_FEEDS = << "u1", "u2" >>
    /\ KEYWORDS = << GOLD >>
    /\ WATCHLIST = << STATE_BANK_OF_INDIA, ITC >>
    /\ WATCHLIST_PATTERNS = _compile_watchlist_patterns(WATCHLIST)
    /\ SEEN_IDS = {}
    /\ ALERTS = << >>
    /\ scheduler = [jobs |-> << >>, running |-> FALSE]
    /\ is_started = FALSE
    /\ poll = [t \in Threads |-> Idle]
    /\ caught = [t \in Threads |-> FALSE]
    /\ stored = << >>
    /\ clearedAt = 0
    /\ watch = [w \in Workers |-> Free]
    /\ act = [op |-> "init", arg |-> << >>, code |-> 0, log |-> "",
              body |-> << >>]
    /\ requests = 0

(***************************************************************************)
(* poll_once, one step at a time                                           *)
(***************************************************************************)

Step(t, what) ==
    [op |-> "poll", arg |-> t, code |-> what, log |-> "", body |-> << >>]

\* Where a thread goes on once the entries of a source are used up; the
\* poll is over after Bing News.
After(p) ==
    IF p.src = "rss" THEN [p EXCEPT !.pc = "rss", !.q = << >>, !.src = ""]
    ELSE IF p.src = "newsapi" THEN [Idle EXCEPT !.pc = "bing", !.owed = p.owed]
    ELSE Idle

\* `continue`, or the end of the loop body.
Continue(p) ==
    IF Len(p.q) > 1 THEN [p EXCEPT !.pc = "check", !.q = Tail(p.q)]
    ELSE After(p)

\* The steps at which a source has failed: the exception is logged, by
\* process_rss_feed or by the fetch_ function, which then returns [].
Failures == {"fetch_failed", "caught", "newsapi_failed", "bing_failed"}

Moved(t, p, what) ==
    /\ poll' = [poll EXCEPT ![t] = p]
    /\ caught' = [caught EXCEPT ![t] =
                     p.pc # "idle" /\ (caught[t] \/ what \in Failures)]
    /\ act' = Step(t, what)

\* An exception leaves poll_once: the job's run fails, POST /poll answers
\* 500.
Raised(t) ==
    /\ poll' = [poll EXCEPT ![t] = Idle]
    /\ caught' = [caught EXCEPT ![t] = FALSE]
    /\ act' = Step(t, "raised")

\* The scheduler runs the job while it runs and the job exists; POST /poll
\* runs on a request thread at any time.
MayPoll(t) ==
    t = "job" => (scheduler.running /\ scheduler.jobs # << >>)

\* poll_once is entered: `for url in RSS_FEEDS` takes an iterator of the
\* list RSS_FEEDS is bound to.
poll_begin(t) ==
    /\ poll[t].pc = "idle"
    /\ MayPoll(t)
    /\ poll' = [poll EXCEPT ![t] =
                   [Idle EXCEPT !.pc = "rss", !.it = RSS_FEEDS, !.shared = TRUE,
                                !.stable = Once(RSS_FEEDS)]]
    /\ caught' = [caught EXCEPT ![t] = FALSE]
    /\ act' = Step(t, "begin")
    /\ UNCHANGED << lists, alerts, service, served >>

\* The next url of the iterator and process_rss_feed up to its entry loop.
rss_next(t) ==
    LET p == poll[t] IN
    /\ p.pc = "rss"
    /\ IF p.idx < Len(p.it)
       THEN LET url == p.it[p.idx + 1]
                n   == [p EXCEPT !.idx = p.idx + 1,
                                 !.fetched = Append(p.fetched, url)]
            IN  \/ url \in Failing /\ Moved(t, n, "fetch_failed")
                \/ \E r \in FeedResults(url) :
                      Moved(t, [n EXCEPT !.pc = "check", !.q = r, !.src = "rss"],
                            "fetched")
       ELSE Moved(t, [Idle EXCEPT !.pc = "newsapi",
                                  !.owed = {u \in p.stable :
                                               Count(p.fetched, u) # 1}],
                  "feeds_done")
    /\ UNCHANGED << lists, alerts, service, served >>

\* process_newsapi up to its loop; fetch_newsapi_articles returns [] when
\* there is no key or the request fails (logged).
newsapi(t) ==
    /\ poll[t].pc = "newsapi"
    /\ \/ Moved(t, [poll[t] EXCEPT !.pc = "bing"], "newsapi_failed")
       \/ /\ NEWSAPI_KEY
          /\ \E r \in NewsApiResults :
                Moved(t, [poll[t] EXCEPT !.pc = "check", !.q = r,
                                        !.src = "newsapi"],
                      "fetched")
    /\ UNCHANGED << lists, alerts, service, served >>

\* process_bing_news up to its loop.
bing(t) ==
    /\ poll[t].pc = "bing"
    /\ \/ Moved(t, Idle, "bing_failed")
       \/ /\ BING_NEWS_KEY
          /\ \E r \in BingResults :
                Moved(t, [poll[t] EXCEPT !.pc = "check", !.q = r,
                                        !.src = "bing"],
                      "fetched")
    /\ UNCHANGED << lists, alerts, service, served >>

\* Mutant: an entry that does not match is marked as seen.
check_marks_seen(t) ==
    LET p == poll[t]
        e == Head(p.q)
    IN
    /\ p.pc = "check"
    /\ LET m == IF e.malformed THEN "error"
                ELSE IF KeyOf(e) \in SEEN_IDS THEN "seen"
                ELSE matches_text(TextOf(e), KEYWORDS, WATCHLIST_PATTERNS)
       IN  /\ IF m = "seen" THEN Moved(t, Continue(p), "seen")
              ELSE IF m = "match" THEN Moved(t, [p EXCEPT !.pc = "add"], "match")
              ELSE IF m = "nomatch" THEN Moved(t, Continue(p), "nomatch")
              ELSE IF p.src = "rss" THEN Moved(t, After(p), "caught")
              ELSE Raised(t)
           /\ SEEN_IDS' = IF m = "nomatch" THEN SEEN_IDS \cup {KeyOf(e)}
                          ELSE SEEN_IDS
    /\ UNCHANGED << lists, ALERTS, stored, clearedAt, service, served >>

\* The loop body up to `if matches_text(text)`: the fields are read, the
\* key is built and looked up in SEEN_IDS, the text is matched.
check(t) ==
    LET p == poll[t]
        e == Head(p.q)
    IN
    /\ p.pc = "check"
    /\ LET m == IF e.malformed THEN "error"
                ELSE IF KeyOf(e) \in SEEN_IDS THEN "seen"
                ELSE matches_text(TextOf(e), KEYWORDS, WATCHLIST_PATTERNS)
       IN  IF m = "seen" THEN Moved(t, Continue(p), "seen")
           ELSE IF m = "match" THEN Moved(t, [p EXCEPT !.pc = "add"], "match")
           ELSE IF m = "nomatch" THEN Moved(t, Continue(p), "nomatch")
           \* only process_rss_feed wraps its loop in try/except
           ELSE IF p.src = "rss" THEN Moved(t, After(p), "caught")
           ELSE Raised(t)
    /\ UNCHANGED << lists, alerts, service, served >>

\* Mutant: the key is never recorded.
add_forgets(t) ==
    LET p == poll[t] IN
    /\ p.pc = "add"
    /\ Moved(t, [p EXCEPT !.pc = "store"], "add")
    /\ UNCHANGED << lists, alerts, service, served >>

\* SEEN_IDS.add(uid)
add(t) ==
    LET p == poll[t] IN
    /\ p.pc = "add"
    /\ SEEN_IDS' = SEEN_IDS \cup {KeyOf(Head(p.q))}
    /\ Moved(t, [p EXCEPT !.pc = "store"], "add")
    /\ UNCHANGED << lists, ALERTS, stored, clearedAt, service, served >>

\* store_alert(title, summary, link, source, published)
store_alert(t) ==
    LET p == poll[t] IN
    /\ p.pc = "store"
    /\ ALERTS' = AppendLeft(ALERTS, Alert(Head(p.q)))
    /\ stored' = Append(stored, Alert(Head(p.q)))
    /\ Moved(t, Continue(p), "store")
    /\ UNCHANGED << lists, SEEN_IDS, clearedAt, service, served >>

(***************************************************************************)
(* HTTP handlers                                                           *)
(***************************************************************************)

Request(op, arg, code) ==
    [op |-> op, arg |-> arg, code |-> code, log |-> "", body |-> << >>]

\* Mutant: the last occurrence goes.
RECURSIVE RemoveLast(_, _)
RemoveLast(s, x) ==
    IF s = << >> THEN << >>
    ELSE IF s[Len(s)] = x THEN SubSeq(s, 1, Len(s) - 1)
    ELSE RemoveLast(SubSeq(s, 1, Len(s) - 1), x) \o << s[Len(s)] >>

\* list.remove(x): the first occurrence goes.
RECURSIVE RemoveFirst(_, _)
RemoveFirst(s, x) ==
    IF s = << >> THEN << >>
    ELSE IF Head(s) = x THEN Tail(s)
    ELSE << Head(s) >> \o RemoveFirst(Tail(s), x)

\* The history of a poll after the feed list has become l: a url that is
\* no longer in it once has not stayed in the list.
Stayed(p, l) ==
    [p EXCEPT !.stable = p.stable \cap Once(l), !.owed = p.owed \cap Once(l)]

\* A list changed in place is seen by every iterator over it ...
InPlace(new) ==
    [t \in Threads |->
        IF poll[t].shared THEN [Stayed(poll[t], new) EXCEPT !.it = new]
        ELSE Stayed(poll[t], new)]

\* ... while a global bound to another list leaves the iterators behind.
Rebound ==
    [t \in Threads |-> [Stayed(poll[t], RSS_FEEDS') EXCEPT !.shared = FALSE]]

\* A request is served.
Served ==
    /\ requests < MaxRequests
    /\ requests' = requests + 1
    /\ UNCHANGED watch

\* POST /feeds
set_feeds(feeds) ==
    /\ Served
    /\ RSS_FEEDS' = feeds
    /\ poll' = Rebound
    /\ act' = Request("set_feeds", feeds, 200)
    /\ UNCHANGED << KEYWORDS, WATCHLIST, WATCHLIST_PATTERNS, alerts, service,
                    caught >>

\* POST /feeds/add
add_feed(url) ==
    /\ Served
    /\ IF url \in Range(RSS_FEEDS)
       THEN /\ act' = Request("add_feed", url, 400)
            /\ UNCHANGED << RSS_FEEDS, poll >>
       ELSE /\ RSS_FEEDS' = Append(RSS_FEEDS, url)
            /\ poll' = InPlace(RSS_FEEDS')
            /\ act' = Request("add_feed", url, 200)
    /\ UNCHANGED << KEYWORDS, WATCHLIST, WATCHLIST_PATTERNS, alerts, service,
                    caught >>

\* DELETE /feeds/remove
remove_feed(url) ==
    /\ Served
    /\ IF url \in Range(RSS_FEEDS)
       THEN /\ RSS_FEEDS' = RemoveFirst(RSS_FEEDS, url)
            /\ poll' = InPlace(RSS_FEEDS')
            /\ act' = Request("remove_feed", url, 200)
       ELSE /\ act' = Request("remove_feed", url, 404)
            /\ UNCHANGED << RSS_FEEDS, poll >>
    /\ UNCHANGED << KEYWORDS, WATCHLIST, WATCHLIST_PATTERNS, alerts, service,
                    caught >>

\* POST /keywords
set_keywords(keywords) ==
    /\ Served
    /\ KEYWORDS' = keywords
    /\ act' = Request("set_keywords", keywords, 200)
    /\ UNCHANGED << RSS_FEEDS, WATCHLIST, WATCHLIST_PATTERNS, alerts, service,
                    polls >>

\* POST /keywords/add
add_keyword(pattern) ==
    /\ Served
    /\ IF pattern \in Range(KEYWORDS)
       THEN /\ act' = Request("add_keyword", pattern, 400)
            /\ UNCHANGED KEYWORDS
       ELSE /\ KEYWORDS' = Append(KEYWORDS, pattern)
            /\ act' = Request("add_keyword", pattern, 200)
    /\ UNCHANGED << RSS_FEEDS, WATCHLIST, WATCHLIST_PATTERNS, alerts, service,
                    polls >>

\* DELETE /keywords/remove
remove_keyword(pattern) ==
    /\ Served
    /\ IF pattern \in Range(KEYWORDS)
       THEN /\ KEYWORDS' = RemoveFirst(KEYWORDS, pattern)
            /\ act' = Request("remove_keyword", pattern, 200)
       ELSE /\ act' = Request("remove_keyword", pattern, 404)
            /\ UNCHANGED KEYWORDS
    /\ UNCHANGED << RSS_FEEDS, WATCHLIST, WATCHLIST_PATTERNS, alerts, service,
                    polls >>

\* POST /watchlist
set_watchlist(names) ==
    /\ Served
    /\ IF names = << >>
       THEN /\ act' = Request("set_watchlist", names, 400)
            /\ UNCHANGED << WATCHLIST, WATCHLIST_PATTERNS >>
       ELSE /\ WATCHLIST' = names
            /\ WATCHLIST_PATTERNS' = _compile_watchlist_patterns(WATCHLIST')
            /\ act' = Request("set_watchlist", names, 200)
    /\ UNCHANGED << RSS_FEEDS, KEYWORDS, alerts, service, polls >>

\* POST /watchlist/add
add_watchlist_name(name) ==
    /\ Served
    /\ IF name \in Range(WATCHLIST)
       THEN /\ act' = Request("add_watchlist_name", name, 400)
            /\ UNCHANGED << WATCHLIST, WATCHLIST_PATTERNS >>
       ELSE /\ WATCHLIST' = Append(WATCHLIST, name)
            /\ WATCHLIST_PATTERNS' = _compile_watchlist_patterns(WATCHLIST')
            /\ act' = Request("add_watchlist_name", name, 200)
    /\ UNCHANGED << RSS_FEEDS, KEYWORDS, alerts, service, polls >>

\* DELETE /watchlist/remove
remove_watchlist_name(name) ==
    /\ Served
    /\ IF name \in Range(WATCHLIST)
       THEN /\ WATCHLIST' = RemoveFirst(WATCHLIST, name)
            /\ WATCHLIST_PATTERNS' = _compile_watchlist_patterns(WATCHLIST')
            /\ act' = Request("remove_watchlist_name", name, 200)
       ELSE /\ act' = Request("remove_watchlist_name", name, 404)
            /\ UNCHANGED << WATCHLIST, WATCHLIST_PATTERNS >>
    /\ UNCHANGED << RSS_FEEDS, KEYWORDS, alerts, service, polls >>

\* The watchlist handlers statement by statement, as a worker thread runs
\* them while another worker may run between its statements.

\* The request arrives and the handler's guard is evaluated: `if not
\* update.names` of set_watchlist, `if name in WATCHLIST` of
\* add_watchlist_name (remove_watchlist_name has none).
watchlist_enter(w, op, arg) ==
    LET rejected == \/ op = "set_watchlist" /\ arg = << >>
                    \/ op = "add_watchlist_name" /\ arg \in Range(WATCHLIST)
    IN
    /\ watch[w].pc = "idle"
    /\ requests < MaxRequests
    /\ requests' = requests + 1
    /\ IF rejected
       THEN /\ act' = Request(op, arg, 400)
            /\ UNCHANGED watch
       ELSE /\ watch' = [watch EXCEPT ![w] =
                            [Free EXCEPT !.pc = "change", !.op = op, !.arg = arg]]
            /\ act' = [Request(op, arg, 0) EXCEPT !.log = "entered"]
    /\ UNCHANGED << lists, alerts, service, polls >>

\* WATCHLIST = update.names, WATCHLIST.append(name) or
\* WATCHLIST.remove(name), whose ValueError is answered with 404.
watchlist_change(w) ==
    LET r == watch[w] IN
    /\ r.pc = "change"
    /\ IF r.op = "remove_watchlist_name" /\ r.arg \notin Range(WATCHLIST)
       THEN /\ watch' = [watch EXCEPT ![w] = Free]
            /\ act' = Request(r.op, r.arg, 404)
            /\ UNCHANGED WATCHLIST
       ELSE /\ WATCHLIST' =
                  IF r.op = "set_watchlist" THEN r.arg
                  ELSE IF r.op = "add_watchlist_name"
                  THEN Append(WATCHLIST, r.arg)
                  ELSE RemoveFirst(WATCHLIST, r.arg)
            /\ watch' = [watch EXCEPT ![w].pc = "compile"]
            /\ act' = [Request(r.op, r.arg, 0) EXCEPT !.log = "changed"]
    /\ UNCHANGED << RSS_FEEDS, KEYWORDS, WATCHLIST_PATTERNS, alerts, service,
                    polls, requests >>

\* _compile_watchlist_patterns(WATCHLIST): the list the global names now
\* is compiled, the result is not yet assigned.
watchlist_compile(w) ==
    LET r == watch[w] IN
    /\ r.pc = "compile"
    /\ watch' = [watch EXCEPT ![w].pc = "assign",
                              ![w].compiled =
                                  _compile_watchlist_patterns(WATCHLIST)]
    /\ act' = [Request(r.op, r.arg, 0) EXCEPT !.log = "compiled"]
    /\ UNCHANGED << lists, alerts, service, polls, requests >>

\* WATCHLIST_PATTERNS = <the compiled list>, and the response.
watchlist_assign(w) ==
    LET r == watch[w] IN
    /\ r.pc = "assign"
    /\ WATCHLIST_PATTERNS' = r.compiled
    /\ watch' = [watch EXCEPT ![w] = Free]
    /\ act' = Request(r.op, r.arg, 200)
    /\ UNCHANGED << RSS_FEEDS, KEYWORDS, WATCHLIST, alerts, service, polls,
                    requests >>

\* s in text
Contains(s, text) ==
    \E i \in 0..(Len(text) - Len(s)) : SubSeq(text, i + 1, i + Len(s)) = s

\* Mutant: the alerts are counted after the truncation.
ListedCountsReturned(items, limit, source, contains) ==
    LET bySource == IF source # "" THEN SelectSeq(items, LAMBDA a : a.source = source)
                    ELSE items
        byText   == IF contains # << >>
                    THEN SelectSeq(bySource,
                             LAMBDA a : Contains(Lower(contains),
                                                 Lower(a.title \o a.summary)))
                    ELSE bySource
    IN  [count |-> Len(Prefix(byText, limit)), alerts |-> Prefix(byText, limit)]

\* The body of list_alerts over items = list(ALERTS).
Listed(items, limit, source, contains) ==
    LET bySource == IF source # "" THEN SelectSeq(items, LAMBDA a : a.source = source)
                    ELSE items
        byText   == IF contains # << >>
                    THEN SelectSeq(bySource,
                             LAMBDA a : Contains(Lower(contains),
                                                 Lower(a.title \o a.summary)))
                    ELSE bySource
    IN  [count |-> Len(byText), alerts |-> Prefix(byText, limit)]

\* GET /alerts
list_alerts(limit, source, contains) ==
    /\ Served
    /\ act' = [Request("list_alerts",
                       [limit |-> limit, source |-> source, contains |-> contains],
                       200)
                  EXCEPT !.body = Listed(ALERTS, limit, source, contains)]
    /\ UNCHANGED << lists, alerts, service, polls >>

\* Mutant: the de-dup set is cleared with the buffer.
clear_alerts_and_seen ==
    /\ Served
    /\ ALERTS' = << >>
    /\ SEEN_IDS' = {}
    /\ clearedAt' = Len(stored)
    /\ act' = Request("clear_alerts", << >>, 200)
    /\ UNCHANGED << lists, stored, service, polls >>

\* DELETE /alerts
clear_alerts ==
    /\ Served
    /\ ALERTS' = << >>
    /\ clearedAt' = Len(stored)
    /\ act' = Request("clear_alerts", << >>, 200)
    /\ UNCHANGED << lists, SEEN_IDS, stored, service, polls >>

(***************************************************************************)
(* Scheduler                                                               *)
(*                                                                         *)
(* scheduler.jobs lists the intervals of the jobs whose id is "poll_job",  *)
(* pending or in the job store.  get_job, reschedule_job and remove_job    *)
(* act on the first of them; add_job on a stopped scheduler queues the job *)
(* without looking for its id; start() raises when already running.        *)
(***************************************************************************)

\* Mutant: an existing job keeps its interval.
start_interval_keeps(minutes) ==
    IF scheduler.jobs # << >>
    THEN [scheduler |-> scheduler, is_started |-> is_started,
          raised |-> FALSE, log |-> "rescheduled"]
    ELSE [scheduler |-> [jobs |-> << minutes >>, running |-> TRUE],
          is_started |-> TRUE, raised |-> FALSE, log |-> "started"]

\* NewsFeederService.start_interval: the scheduler and is_started after it,
\* whether scheduler.start() raised, and what was logged.
start_interval(minutes) ==
    IF scheduler.jobs # << >>
    THEN [scheduler |-> [scheduler EXCEPT !.jobs[1] = minutes],
          is_started |-> is_started, raised |-> FALSE, log |-> "rescheduled"]
    ELSE IF scheduler.running
    THEN [scheduler |-> [scheduler EXCEPT !.jobs = << minutes >>],
          is_started |-> is_started, raised |-> TRUE, log |-> ""]
    ELSE [scheduler |-> [jobs |-> << minutes >>, running |-> TRUE],
          is_started |-> TRUE, raised |-> FALSE, log |-> "started"]

\* Mutant: the flag is left as it was.
stop_interval_keeps_flag ==
    [scheduler |-> [jobs |-> << >>, running |-> FALSE],
     is_started |-> is_started]

\* NewsFeederService.stop_interval: remove_job, then shutdown(wait=False),
\* which also empties the job store.
stop_interval ==
    LET removed == IF scheduler.jobs # << >> THEN Tail(scheduler.jobs)
                   ELSE scheduler.jobs
    IN  [scheduler |-> [jobs |-> IF scheduler.running THEN << >> ELSE removed,
                        running |-> FALSE],
         is_started |-> FALSE]

\* NewsFeederService.status over the given scheduler and flag (the job's
\* next_run_time is left out).
status(sched, started) ==
    [started |-> started,
     interval_minutes |-> POLL_INTERVAL_MINUTES,
     job_exists |-> sched.jobs # << >>,
     feeds_count |-> Len(RSS_FEEDS),
     keywords_count |-> Len(KEYWORDS),
     watchlist_count |-> Len(WATCHLIST),
     seen_count |-> Cardinality(SEEN_IDS),
     alerts_count |-> Len(ALERTS),
     newsapi_enabled |-> NEWSAPI_KEY,
     bing_enabled |-> BING_NEWS_KEY]

\* GET /status
get_status ==
    /\ Served
    /\ act' = [Request("get_status", << >>, 200)
                  EXCEPT !.body = status(scheduler, is_started)]
    /\ UNCHANGED << lists, alerts, service, polls >>

\* GET /seen with the default limit, which exceeds the ids of the model:
\* the sample holds every id (in the set's order, left out here).
list_seen ==
    /\ Served
    /\ act' = [Request("list_seen", << >>, 200)
                  EXCEPT !.body = [count |-> Cardinality(SEEN_IDS),
                                   sample |-> SEEN_IDS]]
    /\ UNCHANGED << lists, alerts, service, polls >>

\* m = minutes or POLL_INTERVAL_MINUTES
MinutesOrDefault(minutes) ==
    IF minutes = << >> \/ minutes[1] = 0 THEN POLL_INTERVAL_MINUTES
    ELSE minutes[1]

\* POST /start
start(minutes) ==
    LET r == start_interval(MinutesOrDefault(minutes)) IN
    /\ Served
    /\ scheduler' = r.scheduler
    /\ is_started' = r.is_started
    /\ act' = [Request("start", minutes, IF r.raised THEN 500 ELSE 200)
                  EXCEPT !.log = r.log,
                         !.body = IF r.raised THEN << >>
                                  ELSE status(r.scheduler, r.is_started)]
    /\ UNCHANGED << lists, alerts, polls >>

\* POST /stop
stop ==
    /\ Served
    /\ scheduler' = stop_interval.scheduler
    /\ is_started' = stop_interval.is_started
    /\ act' = [Request("stop", << >>, 200)
                  EXCEPT !.body = status(stop_interval.scheduler,
                                         stop_interval.is_started)]
    /\ UNCHANGED << lists, alerts, polls >>

(***************************************************************************)
(* Specifications                                                          *)
(***************************************************************************)

\* No other thread is inside poll_once.
Alone(t) == \A u \in Threads \ {t} : poll[u].pc = "idle"

PollStep ==
    \E t \in Threads :
        \/ rss_next(t)
        \/ newsapi(t)
        \/ bing(t)
        \/ check(t)
        \/ add(t)
        \/ store_alert(t)

Handler ==
    \/ \E l \in FeedLists : set_feeds(l)
    \/ \E u \in FeedUrls : add_feed(u)
    \/ \E u \in FeedUrls : remove_feed(u)
    \/ \E l \in KeywordLists : set_keywords(l)
    \/ \E k \in Patterns : add_keyword(k)
    \/ \E k \in Patterns : remove_keyword(k)
    \/ \E l \in NameLists : set_watchlist(l)
    \/ \E n \in Names : add_watchlist_name(n)
    \/ \E n \in Names : remove_watchlist_name(n)
    \/ clear_alerts
    \/ \E m \in Minutes : start(m)
    \/ stop
    \/ get_status
    \/ list_seen

\* poll_once entered while no other thread is inside it.
poll_alone(t) == Alone(t) /\ poll_begin(t)

\* Polls that do not overlap, with requests arriving at any point.
Next ==
    \/ \E t \in Threads : poll_alone(t)
    \/ PollStep
    \/ Handler

Spec == Init /\ [][Next]_vars

\* Polls on the job thread and on a request thread that may overlap.
NextConc ==
    \/ \E t \in Threads : poll_begin(t)
    \/ PollStep
    \/ start(<< >>)
    \/ clear_alerts

SpecConc == Init /\ [][NextConc]_vars

WatchlistRequests ==
    ({"set_watchlist"} \X NameLists)
        \cup ({"add_watchlist_name", "remove_watchlist_name"} \X Names)

\* Watchlist requests served by two workers whose statements interleave.
NextWatch ==
    \/ \E w \in Workers : \E r \in WatchlistRequests :
          watchlist_enter(w, r[1], r[2])
    \/ \E w \in Workers : watchlist_change(w)
    \/ \E w \in Workers : watchlist_compile(w)
    \/ \E w \in Workers : watchlist_assign(w)

SpecWatch == Init /\ [][NextWatch]_vars

\* Polls that do not overlap, with the alerts listed and cleared at any
\* point.
NextAlerts ==
    \/ \E t \in Threads : poll_alone(t)
    \/ PollStep
    \/ clear_alerts
    \/ \E l \in Limits : \E f \in SourceFilters : \E c \in ContainsFilters :
          list_alerts(l, f, c)

SpecAlerts == Init /\ [][NextAlerts]_vars

(***************************************************************************)
(* Properties                                                              *)
(***************************************************************************)

\* The alerts stored since the last clear_alerts.
SinceClear == Len(stored) - clearedAt

AlertKey(a) == stable_id_from(a.title, a.link)

\* C1: in every reachable state the ALERTS buffer holds at most
\* ALERTS_CAPACITY alerts.
C1_BufferWithinCapacity == Len(ALERTS) <= ALERTS_CAPACITY

\* More alerts were stored since the last clear than the buffer holds.
C1_Overflowed == SinceClear > ALERTS_CAPACITY /\ Len(ALERTS) = ALERTS_CAPACITY

\* C2: with polls that do not overlap, no two alerts stored over the whole
\* run have the same de-dup key, and every stored key is in SEEN_IDS.
C2_StoredOnce ==
    LET keys == {AlertKey(stored[i]) : i \in 1..Len(stored)}
    IN  Cardinality(keys) = Len(stored) /\ keys \subseteq SEEN_IDS

\* A poll has just skipped an entry as seen although the buffer, cleared
\* after the entry was stored, no longer holds it.
C2_SkippedAfterClear ==
    /\ act.op = "poll" /\ act.code = "seen"
    /\ stored # << >>
    /\ clearedAt = Len(stored)
    /\ ALERTS = << >>

\* C3: the buffer holds the most recently stored min(n, ALERTS_CAPACITY)
\* alerts of the n stored since the last clear, newest first; a store into
\* a full buffer evicts exactly the alert stored earliest.
C3_NewestFirst ==
    ALERTS = [i \in 1..Min(SinceClear, ALERTS_CAPACITY) |->
                 stored[Len(stored) + 1 - i]]

\* When the alert was stored: its last place in the history.
StoredAt(a) ==
    CHOOSE k \in 1..Len(stored) :
        stored[k] = a /\ \A m \in (k + 1)..Len(stored) : stored[m] # a

C3_EvictsOldest ==
    (Len(stored') = Len(stored) + 1 /\ Len(ALERTS) = ALERTS_CAPACITY)
        => /\ Len(ALERTS') = ALERTS_CAPACITY
           /\ ALERTS' = << stored'[Len(stored')] >>
                        \o SubSeq(ALERTS, 1, ALERTS_CAPACITY - 1)
           /\ \A i \in 1..(ALERTS_CAPACITY - 1) :
                 StoredAt(ALERTS[ALERTS_CAPACITY]) < StoredAt(ALERTS[i])

C3_RingBuffer == [](C3_NewestFirst) /\ [][C3_EvictsOldest]_vars

\* A store has just evicted an alert from a full buffer.
C3_Evicted ==
    /\ act.op = "poll" /\ act.code = "store"
    /\ SinceClear > ALERTS_CAPACITY
    /\ Len(ALERTS) = ALERTS_CAPACITY
    /\ ALERTS[1] = stored[Len(stored)]

\* C6: SEEN_IDS only grows: in every step the new SEEN_IDS contains the old.
C6_SeenOnlyGrows == [][SEEN_IDS \subseteq SEEN_IDS']_vars

\* clear_alerts has just run after an alert was stored, and the ids seen
\* before it are still there.
C6_SeenSurvivesClear ==
    /\ act.op = "clear_alerts"
    /\ stored # << >>
    /\ SEEN_IDS # {}
    /\ ALERTS = << >>

\* The step is the loop body of thread t deciding about the entry e.
Checks(t, e) ==
    /\ act'.op = "poll"
    /\ act'.arg = t
    /\ poll[t].pc = "check"
    /\ e = Head(poll[t].q)

\* No alert stored so far has the title and link of e.
Novel(e) ==
    \A i \in 1..Len(stored) :
        << stored[i].title, stored[i].link >> # << e.title, e.link >>

\* C4: during a poll in which no source has failed, a fetched entry that
\* matches a keyword or watchlist pattern and whose title+link pair differs
\* from that of every entry stored before it is stored: the loop body goes
\* on to SEEN_IDS.add and store_alert with it.
C4_NovelMatchStored ==
    [][\A t \in Threads :
          \A e \in {poll[t].q[i] : i \in 1..Min(1, Len(poll[t].q))} :
             ( /\ Checks(t, e)
               /\ ~caught[t]
               /\ ~e.malformed
               /\ Novel(e)
               /\ matches_text(TextOf(e), KEYWORDS, WATCHLIST_PATTERNS) = "match" )
             => (poll'[t].pc = "add" /\ Head(poll'[t].q) = e)]_vars

\* C5: poll_once never raises to its caller.
C5_PollNeverRaises == ~(act.op = "poll" /\ act.code = "raised")

\* C7: an empty replacement list is rejected with an error.
C7_EmptyReplacementRejected ==
    (act.op \in {"set_feeds", "set_keywords", "set_watchlist"} /\ act.arg = << >>)
        => act.code = 400

\* The place of the first x in s.
FirstIndex(s, x) ==
    CHOOSE i \in 1..Len(s) : s[i] = x /\ \A j \in 1..(i - 1) : s[j] # x

\* What an add request must do to the list l.
AddedTo(l, lNext) ==
    IF act'.arg \in Range(l)
    THEN act'.code = 400 /\ lNext = l
    ELSE act'.code = 200 /\ lNext = l \o << act'.arg >>

\* What a remove request must do to the list l.
RemovedFrom(l, lNext) ==
    IF act'.arg \in Range(l)
    THEN /\ act'.code = 200
         /\ LET i == FirstIndex(l, act'.arg)
            IN  lNext = SubSeq(l, 1, i - 1) \o SubSeq(l, i + 1, Len(l))
    ELSE act'.code = 404 /\ lNext = l

\* C8: for feeds, keywords and watchlist, adding a present item fails with
\* 400 and removing an absent one with 404, leaving the list (and
\* WATCHLIST_PATTERNS) as it was; an add appends at the end, a remove
\* deletes the first occurrence.
C8_AddRemove ==
    [][ /\ act'.op = "add_feed" => AddedTo(RSS_FEEDS, RSS_FEEDS')
        /\ act'.op = "remove_feed" => RemovedFrom(RSS_FEEDS, RSS_FEEDS')
        /\ act'.op = "add_keyword" => AddedTo(KEYWORDS, KEYWORDS')
        /\ act'.op = "remove_keyword" => RemovedFrom(KEYWORDS, KEYWORDS')
        /\ act'.op = "add_watchlist_name" => AddedTo(WATCHLIST, WATCHLIST')
        /\ act'.op = "remove_watchlist_name"
              => RemovedFrom(WATCHLIST, WATCHLIST')
        /\ ( /\ act'.op \in {"add_watchlist_name", "remove_watchlist_name"}
             /\ act'.code # 200 )
              => WATCHLIST_PATTERNS' = WATCHLIST_PATTERNS ]_vars

\* A remove has just deleted the first of two occurrences of a keyword.
C8_RemovedFirstOfTwo ==
    /\ act.op = "remove_keyword" /\ act.code = 200
    /\ act.arg = BAD_REGEX
    /\ KEYWORDS = << GOLD, BAD_REGEX >>

\* C9: the buffer never holds two alerts with the same de-dup key, also
\* when two polls overlap.
C9_NoDuplicateAlert ==
    \A i, j \in 1..Len(ALERTS) :
        i # j => AlertKey(ALERTS[i]) # AlertKey(ALERTS[j])

\* C10: there is never more than one poll job, and after POST /start with
\* minutes = m >= 1 (or omitted: POLL_INTERVAL_MINUTES) exactly one poll
\* job exists, scheduled every m minutes, on a running scheduler.
C10_StartSchedulesOneJob ==
    /\ Len(scheduler.jobs) <= 1
    /\ (act.op = "start" /\ (act.arg = << >> \/ act.arg[1] >= 1))
          => /\ act.code = 200
             /\ scheduler.running
             /\ scheduler.jobs =
                   << IF act.arg = << >> THEN POLL_INTERVAL_MINUTES
                      ELSE act.arg[1] >>

\* POST /start has just rescheduled the existing job to another interval.
C10_Rescheduled ==
    /\ act.op = "start" /\ act.log = "rescheduled"
    /\ act.arg = << 5 >>
    /\ scheduler.jobs = << 5 >>

\* C11: with start and stop requests served one at a time, is_started is
\* true exactly when the poll job exists and exactly when the scheduler
\* runs, and the status returned by /start, /stop and /status reports
\* started and job_exists alike.
C11_SchedulerFactsAgree ==
    /\ is_started <=> scheduler.jobs # << >>
    /\ is_started <=> scheduler.running
    /\ (act.op \in {"start", "stop", "get_status"} /\ act.code = 200)
          => (act.body.started <=> act.body.job_exists)

\* POST /stop has just stopped a scheduler that POST /start had started:
\* the job's poll, begun in between, is still under way.
C11_StoppedAfterStart ==
    /\ act.op = "stop"
    /\ poll["job"].pc # "idle"
    /\ ~is_started
    /\ act.body.started = FALSE /\ act.body.job_exists = FALSE

\* C12: whenever no watchlist request is under way, WATCHLIST_PATTERNS is
\* the list of patterns compiled from the current WATCHLIST, whatever the
\* interleaving of the requests that have completed.
C12_PatternsConsistent ==
    (\A w \in Workers : watch[w].pc = "idle")
        => WATCHLIST_PATTERNS = _compile_watchlist_patterns(WATCHLIST)

\* C13: when a poll ends, every url that has been in the feed list (once)
\* from the beginning of the poll to its end was fetched exactly once by
\* the poll's loop over RSS_FEEDS, whatever requests changed the list in
\* the meantime.
C13_StableFeedsFetchedOnce ==
    [][\A t \in Threads :
          (poll[t].pc # "idle" /\ poll'[t].pc = "idle") => poll[t].owed = {}]_vars

\* The alert passes the filters of the query: its source is the query's,
\* and some window of title+summary spells the query's text when case is
\* ignored.  A filter that is absent or empty lets every alert pass.
Passes(a, query) ==
    LET text == a.title \o a.summary
        c    == query.contains
    IN  /\ query.source # "" => a.source = query.source
        /\ \E i \in 0..(Len(text) - Len(c)) :
              \A k \in 1..Len(c) : LowerChar(text[i + k]) = LowerChar(c[k])

\* The k-th smallest member of a set of indices.
Kth(S, k) == CHOOSE i \in S : Cardinality({j \in S : j < i}) = k - 1

\* What GET /alerts has answered is what the buffer and the query demand:
\* count is the number of alerts in the buffer that pass the filters, and
\* the alerts returned are the first `limit` of them in the buffer's
\* order, newest first.
C14_Answer ==
    act.op = "list_alerts" =>
        LET passing == {i \in 1..Len(ALERTS) : Passes(ALERTS[i], act.arg)}
        IN  /\ C3_NewestFirst
            /\ act.body.count = Cardinality(passing)
            /\ act.body.alerts =
                  [k \in 1..Min(act.arg.limit, Cardinality(passing)) |->
                      ALERTS[Kth(passing, k)]]

\* GET /alerts changes nothing but the history of requests.
C14_ReadOnly ==
    act'.op = "list_alerts" =>
        UNCHANGED << lists, alerts, service, polls, watch >>

\* C14: GET /alerts is read-only and returns the alerts that pass the
\* filters, newest first, cut to the first `limit`, with count the number
\* of alerts that passed before the cut.
C14_ListAlerts == [](C14_Answer) /\ [][C14_ReadOnly]_vars

\* GET /alerts with a text filter has returned fewer alerts than it
\* counted: the limit cut off an alert that passed.
C14_CountExceedsReturned ==
    /\ act.op = "list_alerts"
    /\ act.arg.contains # << >>
    /\ act.body.count > Len(act.body.alerts)
    /\ act.body.alerts # << >>

\* The de-dup keys of all alerts ever stored.
StoredKeys == {AlertKey(stored[i]) : i \in 1..Len(stored)}

\* The keys a poll has put into SEEN_IDS while store_alert is still to be
\* called with their entry.
KeysBeingStored ==
    {KeyOf(Head(poll[t].q)) : t \in {u \in Threads : poll[u].pc = "store"}}

C15_SeenIsStoredOrBeingStored ==
    /\ SEEN_IDS = StoredKeys \cup KeysBeingStored
    /\ Len(ALERTS) <= Cardinality(SEEN_IDS)

\* The loop body leaves SEEN_IDS alone when the entry does not match, and
\* goes on to SEEN_IDS.add and store_alert when the entry, not yet seen,
\* matches the keywords and patterns as they are now.
C15_MarkedOnlyWhenStored ==
    \A t \in Threads :
        (act'.op = "poll" /\ act'.arg = t /\ poll[t].pc = "check") =>
            LET e == Head(poll[t].q) IN
            /\ act'.code # "match" => SEEN_IDS' = SEEN_IDS
            /\ ( /\ ~e.malformed
                 /\ KeyOf(e) \notin SEEN_IDS
                 /\ matches_text(TextOf(e), KEYWORDS, WATCHLIST_PATTERNS) = "match" )
                  => (poll'[t].pc = "add" /\ Head(poll'[t].q) = e)

C16_WatchlistNeverEmpty == WATCHLIST # << >>

\* C17: whenever the poll job exists, the interval_minutes of the status
\* returned by /status, /start and /stop is the interval the job is
\* scheduled at.
C17_StatusReportsJobInterval ==
    ( /\ act.op \in {"get_status", "start", "stop"}
      /\ act.code = 200
      /\ act.body.job_exists )
        => act.body.interval_minutes = scheduler.jobs[1]

====
